---------------------------- MODULE Spec2Model ----------------------------
(***************************************************************************)
(* Model of calc-rs (src/src/lib.rs): a line calculator.  A line is        *)
(* recognised by the pest grammar calc.pest, the flat pair sequence is     *)
(* turned into an Expr tree by pest's PrattParser configured in            *)
(* PRATT_PARSER, the tree is reduced by Expr::eval, and repl() loops over  *)
(* the lines of stdin.                                                     *)
(*                                                                         *)
(* The integer type of the program is i32.  The model keeps a signed       *)
(* two's-complement width of IntBits bits (a scaled-down i32) so that      *)
(* every operand pair of the width can be enumerated.  A Rust build either *)
(* carries overflow checks (debug profile: + - * panic on overflow) or   *)
(* does not (release profile: + - * wrap); / and % panic on a zero   *)
(* divisor and on MIN / -1 in both.  The profile is a variable chosen in   *)
(* the initial state.                                                      *)
(***************************************************************************)
EXTENDS Integers, Sequences, FiniteSets, TLC

VARIABLES profile, input, pc, line, pairs, expr, result, out, lines0

vars == <<profile, input, pc, line, pairs, expr, result, out, lines0>>

-----------------------------------------------------------------------------
(* Bounds *)

\* width in bits of the modelled signed integer type (i32 in the program)
IntBits == 6

\* longest input (in lines) the driver is run on
MaxLines == 2

\* most operands of a flat operand/operator sequence given to the builder
MaxOperands == 3

-----------------------------------------------------------------------------
(* The integer type: src/src/lib.rs:35  Integer(i32) *)

RECURSIVE Pow2(_)
Pow2(n) == IF n = 0 THEN 1 ELSE 2 * Pow2(n - 1)

I32_MIN == -Pow2(IntBits - 1)
I32_MAX == Pow2(IntBits - 1) - 1
I32 == I32_MIN .. I32_MAX

InRange(x) == I32_MIN <= x /\ x <= I32_MAX

\* two's-complement wrapping of a mathematical integer into the width
Wrap(x) == ((x - I32_MIN) % Pow2(IntBits)) + I32_MIN

Abs(x) == IF x < 0 THEN -x ELSE x

\* Rust's / on integers rounds toward zero
TruncDiv(l, r) ==
    IF (l < 0) = (r < 0) THEN Abs(l) \div Abs(r) ELSE -(Abs(l) \div Abs(r))

\* Rust's % on integers: the remainder of the truncating division
TruncRem(l, r) == l - r * TruncDiv(l, r)

-----------------------------------------------------------------------------
(* Outcomes of a call.  eval returns a plain i32, so the only outcomes the *)
(* code has are a value and a panic (a fault that unwinds the thread).     *)

Ok(v) == [kind |-> "ok", val |-> v]
Panic(m) == [kind |-> "panic", msg |-> m]

IsOk(r) == r.kind = "ok"
IsPanic(r) == r.kind = "panic"

-----------------------------------------------------------------------------
(* enum Op, enum Expr: src/src/lib.rs:24-42 *)

Op == {"Add", "Subtract", "Multiply", "Divide", "Modulo"}

Integer(v) == [tag |-> "Integer", val |-> v]
UnaryMinus(e) == [tag |-> "UnaryMinus", arg |-> e]
BinOp(l, o, r) == [tag |-> "BinOp", lhs |-> l, op |-> o, rhs |-> r]

-----------------------------------------------------------------------------
(* Expr::eval: src/src/lib.rs:45-57 *)

\* a + b, a - b, a * b on i32: exact when representable; on overflow a
\* panic when the build carries overflow checks, the wrapped value otherwise
Checked(x, what, checks) ==
    IF InRange(x) THEN Ok(x)
    ELSE IF checks THEN Panic("attempt to " \o what \o " with overflow")
    ELSE Ok(Wrap(x))

\* a / b on i32
DivI32(a, b) ==
    IF b = 0 THEN Panic("attempt to divide by zero")
    ELSE IF a = I32_MIN /\ b = -1 THEN Panic("attempt to divide with overflow")
    ELSE Ok(TruncDiv(a, b))

\* a % b on i32
RemI32(a, b) ==
    IF b = 0 THEN Panic("attempt to calculate the remainder with a divisor of zero")
    ELSE IF a = I32_MIN /\ b = -1
         THEN Panic("attempt to calculate the remainder with overflow")
    ELSE Ok(TruncRem(a, b))

\* the arms of match op (lines 50-54)
ApplyOp(o, a, b, checks) ==
    CASE o = "Add"      -> Checked(a + b, "add", checks)
      [] o = "Subtract" -> Checked(a - b, "subtract", checks)
      [] o = "Multiply" -> Checked(a * b, "multiply", checks)
      [] o = "Divide"   -> DivI32(a, b)
      [] o = "Modulo"   -> RemI32(a, b)

\* an evaluation that takes the right operand first
OperandOrderRL == <<"rhs", "lhs">>

\* the order in which lhs.eval() <op> rhs.eval() evaluates its operands:
\* Rust evaluates the operands of a binary operator left to right
OperandOrder == <<"lhs", "rhs">>

\* child index of an operand in a path
ChildIx(f) == IF f = "rhs" THEN 2 ELSE 1

(* evalAt(e, path, checks) is the call e.eval() on the node at path of   *)
(* the tree under evaluation.  It yields the outcome of the call and the   *)
(* sequence of calls of eval that returned or panicked during it, each     *)
(* named by the path of its node, in the order they ended.  A panic in an  *)
(* operand unwinds: nothing after it is evaluated.                         *)
RECURSIVE evalAt(_, _, _)
evalAt(e, path, checks) ==
    CASE e.tag = "Integer" ->
           [res |-> Ok(e.val), trace |-> <<path>>]
      [] e.tag = "UnaryMinus" ->
           \* val.eval() - val.eval() * 2
           LET a == evalAt(e.arg, Append(path, 1), checks) IN
           IF IsPanic(a.res) THEN a
           ELSE LET b == evalAt(e.arg, Append(path, 1), checks)
                    t == a.trace \o b.trace
                    m == Checked(b.res.val * 2, "multiply", checks)
                IN  IF IsPanic(b.res) THEN [res |-> b.res, trace |-> t]
                    ELSE IF IsPanic(m) THEN [res |-> m, trace |-> Append(t, path)]
                    ELSE [res |-> Checked(a.res.val - m.val, "subtract", checks),
                          trace |-> Append(t, path)]
      [] e.tag = "BinOp" ->
           LET f1 == OperandOrder[1]
               f2 == OperandOrder[2]
               x == evalAt(e[f1], Append(path, ChildIx(f1)), checks)
           IN  IF IsPanic(x.res) THEN x
               ELSE LET y == evalAt(e[f2], Append(path, ChildIx(f2)), checks)
                        t == x.trace \o y.trace
                        l == IF f1 = "lhs" THEN x.res ELSE y.res
                        r == IF f1 = "lhs" THEN y.res ELSE x.res
                    IN  IF IsPanic(y.res) THEN [res |-> y.res, trace |-> t]
                        ELSE [res |-> ApplyOp(e.op, l.val, r.val, checks),
                              trace |-> Append(t, path)]

\* whether the build carries overflow checks
OverflowChecks(p) == p = "debug"

eval(e, p) == evalAt(e, <<>>, OverflowChecks(p))


-----------------------------------------------------------------------------
(* The pairs pest hands to parse_expr.  A pair has a rule, the text it     *)
(* matched (kept for an integer: its digits) and its inner pairs (kept for *)
(* an expr).  The inner pairs of an expr are the flat sequence             *)
(*     unary_minus* primary (infix unary_minus* primary)*                  *)
(* with primary an integer or a nested expr.                               *)

Pair(r, s, i) == [rule |-> r, str |-> s, inner |-> i]

IntegerPair(digits) == Pair("integer", digits, <<>>)
ExprPair(inner) == Pair("expr", <<>>, inner)
RulePair(r) == Pair(r, <<>>, <<>>)

InfixRules == {"add", "subtract", "multiply", "divide", "modulo"}

-----------------------------------------------------------------------------
(* PRATT_PARSER: src/src/lib.rs:10-22.  PrattParser::op gives the operators *)
(* of its n-th call the precedence 10 * (n + 1).                            *)

NoOp == [affix |-> "none", assoc |-> "none", prec |-> 0]

\* a table that gives the multiplicative tier the lower precedence
PRATT_PARSER_TiersSwapped(rule) ==
    CASE rule \in {"add", "subtract"} ->
           [affix |-> "infix", assoc |-> "Left", prec |-> 30]
      [] rule \in {"multiply", "divide", "modulo"} ->
           [affix |-> "infix", assoc |-> "Left", prec |-> 20]
      [] rule = "unary_minus" ->
           [affix |-> "prefix", assoc |-> "none", prec |-> 40]
      [] OTHER -> NoOp

\* a table whose infix operators associate to the right
PRATT_PARSER_RightAssoc(rule) ==
    CASE rule \in {"add", "subtract"} ->
           [affix |-> "infix", assoc |-> "Right", prec |-> 20]
      [] rule \in {"multiply", "divide", "modulo"} ->
           [affix |-> "infix", assoc |-> "Right", prec |-> 30]
      [] rule = "unary_minus" ->
           [affix |-> "prefix", assoc |-> "none", prec |-> 40]
      [] OTHER -> NoOp

PRATT_PARSER(rule) ==
    CASE rule \in {"add", "subtract"} ->
           [affix |-> "infix", assoc |-> "Left", prec |-> 20]
      [] rule \in {"multiply", "divide", "modulo"} ->
           [affix |-> "infix", assoc |-> "Left", prec |-> 30]
      [] rule = "unary_minus" ->
           [affix |-> "prefix", assoc |-> "none", prec |-> 40]
      [] OTHER -> NoOp

-----------------------------------------------------------------------------
(* parse_expr: src/src/lib.rs:60-87 *)

Digits == <<"0", "1", "2", "3", "4", "5", "6", "7", "8", "9">>

IsDigit(c) == \E d \in 1..Len(Digits) : Digits[d] = c

DigitVal(c) == (CHOOSE d \in 1..Len(Digits) : Digits[d] = c) - 1

\* str::parse::<i32> on a string of decimal digits: the value, or an error
\* when the string is empty or the value exceeds i32::MAX
RECURSIVE ParseDigits(_, _)
ParseDigits(digits, acc) ==
    IF digits = <<>> THEN Ok(acc)
    ELSE LET n == acc * 10 + DigitVal(Head(digits)) IN
         IF n > I32_MAX THEN [kind |-> "err", err |-> "PosOverflow"]
         ELSE ParseDigits(Tail(digits), n)

ParseI32(digits) ==
    IF digits = <<>> THEN [kind |-> "err", err |-> "Empty"]
    ELSE ParseDigits(digits, 0)

\* Result::unwrap
Unwrap(r) ==
    IF IsOk(r) THEN r
    ELSE Panic("called Result::unwrap() on an Err value: " \o r.err)

\* the match op.as_rule() of map_infix (lines 68-75)
InfixOp(rule) ==
    CASE rule = "add"      -> "Add"
      [] rule = "subtract" -> "Subtract"
      [] rule = "multiply" -> "Multiply"
      [] rule = "divide"   -> "Divide"
      [] rule = "modulo"   -> "Modulo"

At(r, n) == [res |-> r, next |-> n]

(* PrattParserMap::parse of the pest crate, with the three closures of     *)
(* parse_expr: expr(rbp) reads one operand with nud, then folds infix      *)
(* operators with led while the next operator precedence exceeds rbp.    *)
(* Each yields the outcome (a tree or a panic) and the index of the next   *)
(* unread pair.                                                            *)
RECURSIVE parse_expr(_), PrattExpr(_, _, _), PrattLoop(_, _, _, _),
          PrattNud(_, _), PrattLed(_, _, _), map_primary(_)

\* map_primary (lines 62-66)
map_primary(primary) ==
    CASE primary.rule = "integer" ->
           LET v == Unwrap(ParseI32(primary.str)) IN
           IF IsOk(v) THEN Ok(Integer(v.val)) ELSE v
      [] primary.rule = "expr" -> parse_expr(primary.inner)
      [] OTHER -> Panic("internal error: entered unreachable code")

PrattNud(ps, i) ==
    IF i > Len(ps) THEN At(Panic("Pratt parsing expects non-empty Pairs"), i)
    ELSE LET o == PRATT_PARSER(ps[i].rule) IN
         CASE o.affix = "prefix" ->
                LET rhs == PrattExpr(ps, i + 1, o.prec - 1) IN
                \* map_prefix (lines 82-85)
                IF IsPanic(rhs.res) THEN rhs
                ELSE At(Ok(UnaryMinus(rhs.res.val)), rhs.next)
           [] o.affix = "none" -> At(map_primary(ps[i]), i + 1)
           [] OTHER -> At(Panic("Expected prefix or primary expression"), i)

PrattLed(ps, i, lhs) ==
    LET o == PRATT_PARSER(ps[i].rule) IN
    IF o.affix = "infix"
    THEN LET rhs == PrattExpr(ps, i + 1,
                              IF o.assoc = "Left" THEN o.prec ELSE o.prec - 1)
         IN  \* map_infix (lines 67-81)
             IF IsPanic(rhs.res) THEN rhs
             ELSE At(Ok(BinOp(lhs, InfixOp(ps[i].rule), rhs.res.val)), rhs.next)
    ELSE At(Panic("Expected postfix or infix expression"), i)

PrattLoop(ps, lhs, i, rbp) ==
    IF i > Len(ps) THEN At(Ok(lhs), i)
    ELSE LET o == PRATT_PARSER(ps[i].rule) IN
         IF o.affix = "none" THEN At(Panic("Expected operator"), i)
         ELSE IF rbp < o.prec
         THEN LET l == PrattLed(ps, i, lhs) IN
              IF IsPanic(l.res) THEN l
              ELSE PrattLoop(ps, l.res.val, l.next, rbp)
         ELSE At(Ok(lhs), i)

PrattExpr(ps, i, rbp) ==
    LET n == PrattNud(ps, i) IN
    IF IsPanic(n.res) THEN n
    ELSE PrattLoop(ps, n.res.val, n.next, rbp)

parse_expr(ps) == PrattExpr(ps, 1, 0).res

-----------------------------------------------------------------------------
(* CalculatorParser::parse(Rule::equation, line).  The grammar file        *)
(* calc.pest is not among the sources; the rules are those the             *)
(* specification gives:                                                    *)
(*     equation := ws* expr ws* EOF                                        *)
(*     expr     := term (ws* infix_op ws* term)*                           *)
(*     term     := integer | "(" ws* expr ws* ")" | "-" ws* term           *)
(*     integer  := digit+                                                  *)
(*     infix_op := "+" | "-" | "*" | "/" | "%"                             *)
(*     ws       := space | tab                                             *)
(* A line is a sequence of characters.  A match yields the expr pair, a    *)
(* mismatch the offset (1-based) at which no rule applies.                 *)

IsWs(c) == c \in {" ", "\t"}

InfixRule(c) ==
    CASE c = "+" -> "add"
      [] c = "-" -> "subtract"
      [] c = "*" -> "multiply"
      [] c = "/" -> "divide"
      [] c = "%" -> "modulo"
      [] OTHER   -> "none"

Matched(items, n) == [ok |-> TRUE, items |-> items, next |-> n]
Mismatch(n) == [ok |-> FALSE, items |-> <<>>, next |-> n]

RECURSIVE SkipWs(_, _)
SkipWs(s, i) == IF i <= Len(s) /\ IsWs(s[i]) THEN SkipWs(s, i + 1) ELSE i

RECURSIVE DigitsEnd(_, _)
DigitsEnd(s, i) == IF i <= Len(s) /\ IsDigit(s[i]) THEN DigitsEnd(s, i + 1) ELSE i

RECURSIVE TermAt(_, _), ExprAt(_, _), ExprRest(_, _, _)

TermAt(s, i) ==
    IF i > Len(s) THEN Mismatch(i)
    ELSE CASE IsDigit(s[i]) ->
                LET j == DigitsEnd(s, i) IN
                Matched(<<IntegerPair(SubSeq(s, i, j - 1))>>, j)
           [] s[i] = "(" ->
                LET e == ExprAt(s, SkipWs(s, i + 1))
                    k == SkipWs(s, e.next)
                IN  IF ~e.ok THEN e
                    ELSE IF k <= Len(s) /\ s[k] = ")"
                    THEN Matched(<<ExprPair(e.items)>>, k + 1)
                    ELSE Mismatch(k)
           [] s[i] = "-" ->
                LET t == TermAt(s, SkipWs(s, i + 1)) IN
                IF ~t.ok THEN t
                ELSE Matched(<<RulePair("unary_minus")>> \o t.items, t.next)
           [] OTHER -> Mismatch(i)

ExprRest(s, items, i) ==
    LET k == SkipWs(s, i) IN
    IF k <= Len(s) /\ InfixRule(s[k]) # "none"
    THEN LET t == TermAt(s, SkipWs(s, k + 1)) IN
         IF ~t.ok THEN t
         ELSE ExprRest(s, items \o <<RulePair(InfixRule(s[k]))>> \o t.items, t.next)
    ELSE Matched(items, i)

ExprAt(s, i) ==
    LET t == TermAt(s, i) IN
    IF ~t.ok THEN t ELSE ExprRest(s, t.items, t.next)

CalculatorParser_parse(s) ==
    LET e == ExprAt(s, SkipWs(s, 1))
        k == SkipWs(s, e.next)
    IN  IF ~e.ok THEN [kind |-> "err", pos |-> e.next]
        ELSE IF k <= Len(s) THEN [kind |-> "err", pos |-> k]
        ELSE Ok(<<ExprPair(e.items)>>)

-----------------------------------------------------------------------------
(* repl: src/src/lib.rs:89-107.  pc is the position in the loop:           *)
(*   "read"     at the head of `for line in ...lines()`                    *)
(*   "parse"    a line is read, CalculatorParser::parse is to run          *)
(*   "build"    the Ok arm: parse_expr is to run                           *)
(*   "eval"     the tree is printed, inner.eval() is to run                *)
(*   "done"     the iterator is exhausted, repl returned Ok(())            *)
(*   "panicked" a panic unwound out of repl: the process is gone           *)
(* out is what was printed, lines0 the whole input.                        *)

Profiles == {"debug", "release"}

NoExpr == [tag |-> "none"]
NoResult == [res |-> [kind |-> "none"], trace |-> <<>>]

ReadLine ==
    /\ pc = "read"
    /\ input # <<>>
    /\ line' = Head(input)
    /\ input' = Tail(input)
    /\ pc' = "parse"
    /\ UNCHANGED <<profile, pairs, expr, result, out, lines0>>

Finish ==
    /\ pc = "read"
    /\ input = <<>>
    /\ pc' = "done"
    /\ UNCHANGED <<profile, input, line, pairs, expr, result, out, lines0>>

ParseOk ==
    /\ pc = "parse"
    /\ LET r == CalculatorParser_parse(line) IN
       /\ IsOk(r)
       /\ pairs' = r.val
    /\ pc' = "build"
    /\ UNCHANGED <<profile, input, line, expr, result, out, lines0>>

ParseErr ==
    /\ pc = "parse"
    /\ LET r == CalculatorParser_parse(line) IN
       /\ ~IsOk(r)
       /\ out' = Append(out, [what |-> "ParseFailed", pos |-> r.pos])
    /\ pc' = "read"
    /\ UNCHANGED <<profile, input, line, pairs, expr, result, lines0>>

\* parse_expr(pairs.next().unwrap().into_inner()) and the first println!
Build ==
    /\ pc = "build"
    /\ LET r == parse_expr(Head(pairs).inner) IN
       IF IsPanic(r)
       THEN /\ pc' = "panicked"
            /\ result' = [res |-> r, trace |-> <<>>]
            /\ UNCHANGED <<expr, out>>
       ELSE /\ pc' = "eval"
            /\ expr' = r.val
            /\ out' = Append(out, [what |-> "Parsed", expr |-> r.val])
            /\ UNCHANGED result
    /\ UNCHANGED <<profile, input, line, pairs, lines0>>

\* println!("{}", inner.eval())
Evaluate ==
    /\ pc = "eval"
    /\ LET r == eval(expr, profile) IN
       /\ result' = r
       /\ IF IsPanic(r.res)
          THEN pc' = "panicked" /\ UNCHANGED out
          ELSE pc' = "read" /\ out' = Append(out, [what |-> "Value", val |-> r.res.val])
    /\ UNCHANGED <<profile, input, line, pairs, expr, lines0>>

-----------------------------------------------------------------------------
(* Inputs *)

SeqsUpTo(S, n) == UNION {[1..k -> S] : k \in 0..n}

\* the lines the driver is run on: well-formed ones, one that is no
\* expression, one dividing by zero, one whose literal exceeds the largest
\* integer, one whose sum exceeds it at a width of 6 bits
DriverLines ==
    { <<"2", "+", "3", "*", "4">>,
      <<"(", "2", " ", "+", " ", "3", ")", " ", "*", " ", "4">>,
      <<"-", "3", "+", "5">>,
      <<"5", " ", "$", " ", "3">>,
      <<"5", "/", "0">>,
      <<"9", "9", "9">>,
      <<"3", "1", "+", "1">> }

\* the trees eval is applied to: every pair of operands of the width under
\* every operator and every operand under one and two negations (EvalTrees),
\* and every tree of depth two over the edge values (EdgeTrees)
EvalTrees(vals) ==
    {BinOp(Integer(l), o, Integer(r)) : l \in vals, o \in Op, r \in vals}
      \cup {UnaryMinus(Integer(v)) : v \in vals}
      \cup {UnaryMinus(UnaryMinus(Integer(v))) : v \in vals}

EdgeLeaves(vals) == {Integer(v) : v \in vals}
Deeper(T) == {UnaryMinus(e) : e \in T}
               \cup {BinOp(l, o, r) : l \in T, o \in Op, r \in T}
EdgeTrees(vals) == Deeper(EdgeLeaves(vals) \cup Deeper(EdgeLeaves(vals)))

\* the flat sequences parse_expr is applied to
Atoms(prims) == {<<p>> : p \in prims} \cup {<<RulePair("unary_minus"), p>> : p \in prims}

RECURSIVE FlatSeqs(_, _)
FlatSeqs(atoms, n) ==
    IF n = 1 THEN atoms
    ELSE {s \o <<RulePair(o)>> \o a : s \in FlatSeqs(atoms, n - 1), o \in InfixRules, a \in atoms}

FlatUpTo(atoms, n) == UNION {FlatSeqs(atoms, k) : k \in 1..n}

IntPrims(lits) == {IntegerPair(d) : d \in lits}
\* parenthesized groups: two literals under the given operators
Groups(ops) == {ExprPair(<<IntegerPair(<<"3">>), RulePair(o), IntegerPair(<<"4">>)>>) : o \in ops}

\* "2 + 3 * 4", "(2 + 3) * 4", "-3 + 5", "10 - 3 - 2", "20 / 2 / 5"
Lit(d) == IntegerPair(d)
Ex_2p3m4 == <<Lit(<<"2">>), RulePair("add"), Lit(<<"3">>), RulePair("multiply"), Lit(<<"4">>)>>
Ex_g2p3m4 == <<ExprPair(<<Lit(<<"2">>), RulePair("add"), Lit(<<"3">>)>>),
               RulePair("multiply"), Lit(<<"4">>)>>
Ex_n3p5 == <<RulePair("unary_minus"), Lit(<<"3">>), RulePair("add"), Lit(<<"5">>)>>
Ex_10s3s2 == <<Lit(<<"1", "0">>), RulePair("subtract"), Lit(<<"3">>),
               RulePair("subtract"), Lit(<<"2">>)>>
Ex_20d2d5 == <<Lit(<<"2", "0">>), RulePair("divide"), Lit(<<"2">>),
               RulePair("divide"), Lit(<<"5">>)>>

BuildInputs(n) ==
    {Ex_2p3m4, Ex_g2p3m4, Ex_n3p5, Ex_10s3s2, Ex_20d2d5}
      \cup FlatUpTo(Atoms(IntPrims({<<"2">>, <<"3">>})), n)
      \cup FlatUpTo(Atoms(Groups(InfixRules) \cup IntPrims({<<"2">>})), 2)
      \cup FlatSeqs(Atoms(Groups({"add", "multiply"}) \cup IntPrims({<<"2">>})), 3)

-----------------------------------------------------------------------------
(* Specifications *)

\* the driver on every input of at most MaxLines lines
Init ==
    /\ profile \in Profiles
    /\ input \in SeqsUpTo(DriverLines, MaxLines)
    /\ lines0 = input
    /\ pc = "read"
    /\ line = <<>>
    /\ pairs = <<>>
    /\ expr = NoExpr
    /\ result = NoResult
    /\ out = <<>>

Next == ReadLine \/ Finish \/ ParseOk \/ ParseErr \/ Build \/ Evaluate

Spec == Init /\ [][Next]_vars

\* Expr::eval applied to every tree of EvalTrees
InitEval ==
    /\ profile \in Profiles
    /\ expr \in EvalTrees(I32)
    /\ pc = "eval"
    /\ input = <<>>
    /\ lines0 = <<>>
    /\ line = <<>>
    /\ pairs = <<>>
    /\ result = NoResult
    /\ out = <<>>

NextEval == Evaluate

SpecEval == InitEval /\ [][NextEval]_vars

\* Expr::eval applied to every tree of depth two over the edge values
InitEvalDeep ==
    /\ profile \in Profiles
    /\ expr \in EdgeTrees({I32_MIN, -1, 0, I32_MAX})
    /\ pc = "eval"
    /\ input = <<>>
    /\ lines0 = <<>>
    /\ line = <<>>
    /\ pairs = <<>>
    /\ result = NoResult
    /\ out = <<>>

SpecEvalDeep == InitEvalDeep /\ [][NextEval]_vars

\* parse_expr, then eval, applied to every sequence of BuildInputs
InitBuild ==
    /\ profile \in Profiles
    /\ pairs \in {<<ExprPair(s)>> : s \in BuildInputs(MaxOperands)}
    /\ pc = "build"
    /\ input = <<>>
    /\ lines0 = <<>>
    /\ line = <<>>
    /\ expr = NoExpr
    /\ result = NoResult
    /\ out = <<>>

NextBuild == Build \/ Evaluate

SpecBuild == InitBuild /\ [][NextBuild]_vars

-----------------------------------------------------------------------------
(* Vocabulary of the properties *)

RECURSIVE Subtrees(_)
Subtrees(e) ==
    CASE e.tag = "UnaryMinus" -> {e} \cup Subtrees(e.arg)
      [] e.tag = "BinOp"      -> {e} \cup Subtrees(e.lhs) \cup Subtrees(e.rhs)
      [] OTHER                -> {e}

\* precedence tier of an operator: 1 additive, 2 multiplicative
Tier(o) == IF o \in {"Add", "Subtract"} THEN 1 ELSE 2

OpRule(o) ==
    CASE o = "Add"      -> "add"
      [] o = "Subtract" -> "subtract"
      [] o = "Multiply" -> "multiply"
      [] o = "Divide"   -> "divide"
      [] o = "Modulo"   -> "modulo"

\* decimal digits of a natural number
RECURSIVE ToDigits(_)
ToDigits(n) ==
    IF n < 10 THEN <<Digits[n + 1]>>
    ELSE Append(ToDigits(n \div 10), Digits[(n % 10) + 1])

\* the flat pair sequence a tree without groups is a tree of: its leaves and
\* operators in order
RECURSIVE Unparse(_)
Unparse(e) ==
    CASE e.tag = "Integer"    -> <<IntegerPair(ToDigits(e.val))>>
      [] e.tag = "UnaryMinus" -> <<RulePair("unary_minus")>> \o Unparse(e.arg)
      [] e.tag = "BinOp"      -> Unparse(e.lhs) \o <<RulePair(OpRule(e.op))>> \o Unparse(e.rhs)

\* a flat sequence with its k-th parenthesized group replaced by the literal
\* Mark(k), which no input holds (no input has more than three groups)
Mark(k) == I32_MAX + 1 - k
IsMark(v) == v > I32_MAX - 3
RECURSIVE GroupsBefore(_, _)
GroupsBefore(seq, i) ==
    IF i = 0 THEN 0
    ELSE GroupsBefore(seq, i - 1) + (IF seq[i].rule = "expr" THEN 1 ELSE 0)

Opaque(seq) ==
    [i \in 1..Len(seq) |->
        IF seq[i].rule = "expr"
        THEN IntegerPair(ToDigits(Mark(GroupsBefore(seq, i))))
        ELSE seq[i]]

GroupNo(seq, k) == CHOOSE i \in 1..Len(seq) : seq[i].rule = "expr" /\ GroupsBefore(seq, i) = k

\* the tree with every leaf Mark(k) replaced by the tree built from the k-th group
RECURSIVE Subst(_, _)
Subst(e, seq) ==
    CASE e.tag = "Integer" ->
           IF IsMark(e.val)
           THEN parse_expr(seq[GroupNo(seq, I32_MAX + 1 - e.val)].inner).val
           ELSE e
      [] e.tag = "UnaryMinus" -> UnaryMinus(Subst(e.arg, seq))
      [] e.tag = "BinOp" -> BinOp(Subst(e.lhs, seq), e.op, Subst(e.rhs, seq))

\* no operator sits directly under one that binds tighter than it
TighterOK(t) ==
    \A n \in Subtrees(t) :
        /\ n.tag = "UnaryMinus" => n.arg.tag # "BinOp"
        /\ (n.tag = "BinOp" /\ Tier(n.op) = 2) =>
              /\ ~(n.lhs.tag = "BinOp" /\ Tier(n.lhs.op) = 1)
              /\ ~(n.rhs.tag = "BinOp" /\ Tier(n.rhs.op) = 1)

\* no operator has an operator of its own tier as its right operand
LeftAssocOK(t) ==
    \A n \in Subtrees(t) :
        n.tag = "BinOp" => ~(n.rhs.tag = "BinOp" /\ Tier(n.rhs.op) = Tier(n.op))

Built == pc \in {"eval", "read", "panicked"} /\ expr # NoExpr
Evaluated == pc \in {"read", "panicked"} /\ result # NoResult
BuildSeq == Head(pairs).inner

-----------------------------------------------------------------------------
(* Properties of parse_expr (SpecBuild) *)

\* C3: the tree built from a flat sequence holds the sequence in order, has no
\* additive operator directly under a multiplicative one and no binary
\* operator directly under a unary minus, and holds each parenthesized group
\* as the tree built from the group alone in the place of one primary;
\* "2 + 3 * 4" evaluates to 14, "(2 + 3) * 4" to 20, "-3 + 5" to 2.
C3_PrecedenceTiers ==
    Built =>
       LET seq0 == Opaque(BuildSeq)
           t0 == parse_expr(seq0).val
       IN  /\ Unparse(t0) = seq0
           /\ TighterOK(t0)
           /\ expr = Subst(t0, BuildSeq)
           /\ (Evaluated /\ BuildSeq = Ex_2p3m4) => result.res = Ok(14)
           /\ (Evaluated /\ BuildSeq = Ex_g2p3m4) => result.res = Ok(20)
           /\ (Evaluated /\ BuildSeq = Ex_n3p5) => result.res = Ok(2)

\* "-2 + 3 * (3 + 4)" is built as (-2) + (3 * (3 + 4))
C3_Witness ==
    /\ Built
    /\ BuildSeq = <<RulePair("unary_minus"), Lit(<<"2">>), RulePair("add"), Lit(<<"2">>),
                    RulePair("multiply"),
                    ExprPair(<<Lit(<<"3">>), RulePair("add"), Lit(<<"4">>)>>)>>
    /\ expr = BinOp(UnaryMinus(Integer(2)), "Add",
                    BinOp(Integer(2), "Multiply", BinOp(Integer(3), "Add", Integer(4))))

\* C4: operators of one tier group left to right: no operator has an operator
\* of its own tier as its right operand (outside a parenthesized group), so
\* a op1 b op2 c with op1, op2 of one tier is BinOp(BinOp(a, op1, b), op2, c);
\* "10 - 3 - 2" evaluates to 5 and "20 / 2 / 5" to 2.
C4_LeftAssociative ==
    Built =>
       LET seq == BuildSeq
           t0 == parse_expr(Opaque(seq)).val
       IN  /\ LeftAssocOK(t0)
           /\ (/\ Len(seq) = 5
               /\ \A i \in {1, 3, 5} : seq[i].rule = "integer"
               /\ Tier(InfixOp(seq[2].rule)) = Tier(InfixOp(seq[4].rule))) =>
                 expr = BinOp(BinOp(map_primary(seq[1]).val, InfixOp(seq[2].rule),
                                    map_primary(seq[3]).val),
                              InfixOp(seq[4].rule), map_primary(seq[5]).val)
           /\ (Evaluated /\ seq = Ex_10s3s2) => result.res = Ok(5)
           /\ (Evaluated /\ seq = Ex_20d2d5) => result.res = Ok(2)

\* "2 - 3 + 2" is built as (2 - 3) + 2 and evaluates to 1
C4_Witness ==
    /\ Evaluated
    /\ BuildSeq = <<Lit(<<"2">>), RulePair("subtract"), Lit(<<"3">>), RulePair("add"), Lit(<<"2">>)>>
    /\ expr = BinOp(BinOp(Integer(2), "Subtract", Integer(3)), "Add", Integer(2))
    /\ result.res = Ok(1)

-----------------------------------------------------------------------------
(* Properties of Expr::eval (SpecEval, SpecEvalDeep) *)

\* the typed error value the claims name; eval has no such outcome
Err(k) == [kind |-> "err", err |-> k]

Checks == OverflowChecks(profile)

\* the paths of the nodes of a tree in depth-first, left-to-right post-order
RECURSIVE PostOrder(_, _)
PostOrder(e, path) ==
    CASE e.tag = "UnaryMinus" -> Append(PostOrder(e.arg, Append(path, 1)), path)
      [] e.tag = "BinOp" ->
           Append(PostOrder(e.lhs, Append(path, 1)) \o PostOrder(e.rhs, Append(path, 2)), path)
      [] OTHER -> <<path>>

RECURSIVE NodeAt(_, _)
NodeAt(e, path) ==
    IF path = <<>> THEN e
    ELSE NodeAt(IF e.tag = "UnaryMinus" THEN e.arg
                ELSE IF Head(path) = 1 THEN e.lhs ELSE e.rhs, Tail(path))

IsPrefix(p, q) == Len(p) <= Len(q) /\ SubSeq(q, 1, Len(p)) = p

Operands(n) ==
    CASE n.tag = "UnaryMinus" -> {n.arg}
      [] n.tag = "BinOp"      -> {n.lhs, n.rhs}
      [] OTHER                -> {}

\* a node fails of its own: its operands have values and its operation has none
FailsItself(n) ==
    /\ \A c \in Operands(n) : IsOk(evalAt(c, <<>>, Checks).res)
    /\ IsPanic(evalAt(n, <<>>, Checks).res)

\* index in post-order of the first node that fails of its own (0: none)
FirstFailure(e) ==
    LET po == PostOrder(e, <<>>)
        F == {i \in 1..Len(po) : FailsItself(NodeAt(e, po[i]))}
    IN  IF F = {} THEN 0 ELSE CHOOSE i \in F : \A j \in F : i <= j

IndexIn(po, path) == CHOOSE i \in 1..Len(po) : po[i] = path

\* C10: in every call on a BinOp the call on the left operand has returned
\* before any call in the right operand is made; an evaluation that fails
\* reports the failure of the first node, in depth-first left-to-right order,
\* that fails of its own, and evaluates nothing after it: the failing call
\* is the last one, every call made lies at or before it in that order, and
\* the failing node is evaluated once.
C10_FirstFailureLeftToRight ==
    Evaluated =>
       LET po == PostOrder(expr, <<>>)
           f == FirstFailure(expr)
           tr == result.trace
       IN  /\ \A k \in 1..Len(po) : \A j \in 1..Len(tr) :
                 (NodeAt(expr, po[k]).tag = "BinOp" /\ IsPrefix(Append(po[k], 2), tr[j])) =>
                    \E i \in 1..(j - 1) :
                        /\ tr[i] = Append(po[k], 1)
                        /\ \A m \in i..j : tr[m] # po[k]
           /\ IsPanic(result.res) <=> f # 0
           /\ IsPanic(result.res) =>
                 /\ result.res = evalAt(NodeAt(expr, po[f]), <<>>, Checks).res
                 /\ tr[Len(tr)] = po[f]
                 /\ \A i \in 1..Len(tr) : IndexIn(po, tr[i]) <= f
                 /\ Cardinality({i \in 1..Len(tr) : tr[i] = po[f]}) = 1

\* both operands of the root fail of their own, with different panics, and
\* the one of the left operand is reported
C10_Witness ==
    /\ Evaluated
    /\ expr.tag = "BinOp"
    /\ FailsItself(expr.lhs)
    /\ FailsItself(expr.rhs)
    /\ evalAt(expr.lhs, <<>>, Checks).res # evalAt(expr.rhs, <<>>, Checks).res
    /\ result.res = evalAt(expr.lhs, <<>>, Checks).res
    /\ pc = "panicked"

\* the exact result of an operator on mathematical integers
MathOp(o, l, r) ==
    CASE o = "Add"      -> l + r
      [] o = "Subtract" -> l - r
      [] o = "Multiply" -> l * r

\* the quotient rounded toward zero, from its defining inequalities
Quotient(l, r) ==
    CHOOSE q \in (-Abs(l))..Abs(l) :
        /\ Abs(q) * Abs(r) <= Abs(l)
        /\ Abs(l) < (Abs(q) + 1) * Abs(r)
        /\ q # 0 => ((q > 0) <=> ((l < 0) = (r < 0)))

IsLeafPair(e) == e.tag = "BinOp" /\ e.lhs.tag = "Integer" /\ e.rhs.tag = "Integer"

\* a Divide or Modulo node whose operands evaluate and whose right operand
\* evaluates to 0
ZeroDivisor(n) ==
    /\ n.tag = "BinOp"
    /\ n.op \in {"Divide", "Modulo"}
    /\ IsOk(evalAt(n.lhs, <<>>, Checks).res)
    /\ evalAt(n.rhs, <<>>, Checks).res = Ok(0)

\* C1: the evaluation of a tree in which the first node to fail is a Divide or
\* Modulo node with a right operand that evaluates to 0 ends in the error
\* value DivisionByZero, not in a panic and not in an integer.
C1_DivisionByZeroIsTypedError ==
    (/\ Evaluated
     /\ FirstFailure(expr) # 0
     /\ ZeroDivisor(NodeAt(expr, PostOrder(expr, <<>>)[FirstFailure(expr)])))
       => result.res = Err("DivisionByZero")

\* C2: Add, Subtract and Multiply of two operands return the exact result when
\* it is representable and the error value Overflow when it is not.
C2_CheckedArithmetic ==
    (Evaluated /\ IsLeafPair(expr) /\ expr.op \in {"Add", "Subtract", "Multiply"}) =>
       LET x == MathOp(expr.op, expr.lhs.val, expr.rhs.val) IN
       result.res = IF InRange(x) THEN Ok(x) ELSE Err("Overflow")

\* C5: UnaryNegate(v) evaluates to -v for every v but the minimum, for which
\* it fails with Overflow; a double negation evaluates to v.
C5_UnaryNegate ==
    /\ (Evaluated /\ expr.tag = "UnaryMinus" /\ expr.arg.tag = "Integer") =>
          result.res = IF expr.arg.val = I32_MIN THEN Err("Overflow")
                       ELSE Ok(-expr.arg.val)
    /\ (/\ Evaluated /\ expr.tag = "UnaryMinus" /\ expr.arg.tag = "UnaryMinus"
        /\ expr.arg.arg.tag = "Integer" /\ expr.arg.arg.val # I32_MIN) =>
          result.res = Ok(expr.arg.arg.val)

\* C8: Divide by a nonzero divisor evaluates to the quotient rounded toward
\* zero, but for the minimum divided by -1, which fails with Overflow.
C8_TruncatingDivision ==
    (Evaluated /\ IsLeafPair(expr) /\ expr.op = "Divide" /\ expr.rhs.val # 0) =>
       result.res = IF expr.lhs.val = I32_MIN /\ expr.rhs.val = -1
                    THEN Err("Overflow")
                    ELSE Ok(Quotient(expr.lhs.val, expr.rhs.val))

\* C9: Modulo by a nonzero divisor, the minimum by -1 included, evaluates to
\* l - r * trunc(l / r), which is zero or has the sign of l.
C9_TruncatingRemainder ==
    (Evaluated /\ IsLeafPair(expr) /\ expr.op = "Modulo" /\ expr.rhs.val # 0) =>
       LET l == expr.lhs.val
           r == expr.rhs.val
           m == l - r * Quotient(l, r)
       IN  /\ result.res = Ok(m)
           /\ m = 0 \/ ((m < 0) <=> (l < 0))

-----------------------------------------------------------------------------
(* Properties of the driver (Spec) *)

\* the number a string of digits denotes
RECURSIVE NumVal(_)
NumVal(digits) ==
    IF digits = <<>> THEN 0
    ELSE 10 * NumVal(SubSeq(digits, 1, Len(digits) - 1)) + DigitVal(digits[Len(digits)])

RECURSIVE HasOverflowLiteral(_)
HasOverflowLiteral(ps) ==
    \E i \in 1..Len(ps) :
        \/ ps[i].rule = "integer" /\ NumVal(ps[i].str) > I32_MAX
        \/ ps[i].rule = "expr" /\ HasOverflowLiteral(ps[i].inner)

\* the loop is through with the line read last
LineDone == pc \in {"read", "done", "panicked"} /\ line # <<>>

\* C6: a line that matches the grammar and holds a literal above the largest
\* integer is answered with a syntax error: no panic, no tree, no value.
C6_LiteralOverflowIsSyntaxError ==
    (/\ LineDone
     /\ IsOk(CalculatorParser_parse(line))
     /\ HasOverflowLiteral(CalculatorParser_parse(line).val)) =>
        /\ pc # "panicked"
        /\ out # <<>>
        /\ out[Len(out)].what = "ParseFailed"

\* the lines answered: each with a value or a parse failure
Answered == Cardinality({i \in 1..Len(out) : out[i].what \in {"Value", "ParseFailed"}})

\* C7: the driver stops only at the end of the input, having answered every
\* line: no failure of a line ends the process.
C7_EveryLineAnswered ==
    pc \in {"done", "panicked"} => (pc = "done" /\ Answered = Len(lines0))

=============================================================================
